---- MODULE Spec2Model ----
(***************************************************************************)
(* dbwriter.py: a CSV of record descriptions is validated (input_error)    *)
(* and, when the validator does not return a truthy value, converted into  *)
(* an EPICS database file (process_csv).  main() runs the two in sequence. *)
(*                                                                         *)
(* Strings whose characters the code looks at (the input path, the cell    *)
(* values) are sequences of one-character strings; header names, which the *)
(* code only compares for equality, are TLA+ strings.  A data row is a     *)
(* function from the header names to cell values, as csv.DictReader yields *)
(* for a row with one cell per column.  The source is read as Python 3.12  *)
(* or later runs it (line 118 nests double quotes in an f-string).         *)
(***************************************************************************)
EXTENDS Integers, Sequences, FiniteSets, TLC

VARIABLES
    input_path,     \* args.input_path
    fieldnames,     \* reader.fieldnames of the input file: [isNone, names]
    csv_rows,       \* the data rows of the input file, in file order
    outfile,        \* content of the file at args.output_db: sequence of lines
    pc,             \* position of the run
    run,            \* ordinal of the current run of main()
    first_out,      \* content of the output file when the first run ended
    err_log,        \* input_error: the categorised report
    recnames,       \* input_error: names collected for the duplicate check
    row_num,        \* input_error: 1-based number of the next row
    err_return,     \* input_error: the aggregated flag
    ret,            \* value input_error returned: "True", "False", "None"
    called,         \* main: process_csv was invoked in this run
    opened,         \* process_csv: output_db was opened for writing in this run
    fields,         \* process_csv: non-reserved header names, header order
    ignore_h,       \* process_csv: "IGNORE" in headers
    p_row_num,      \* process_csv: row_num
    count_recs,     \* process_csv: records written
    count_ignore,   \* process_csv: rows ignored
    count_skip,     \* process_csv: rows skipped
    caught,         \* process_csv: an exception reached the except clause
    recname_list,   \* duplicates_found: the argument
    dup_i,          \* duplicates_found: position of the loop in recname_list
    duplicates,     \* duplicates_found: the list of repeats
    seen,           \* duplicates_found: the names met so far
    dup_result      \* duplicates_found: the returned set

vars == <<input_path, fieldnames, csv_rows, outfile, pc, run, first_out,
          err_log, recnames, row_num, err_return, ret, called, opened, fields,
          ignore_h, p_row_num, count_recs, count_ignore, count_skip, caught,
          recname_list, dup_i, duplicates, seen, dup_result>>

inputVars == <<input_path, fieldnames, csv_rows>>
validatorVars == <<err_log, recnames, row_num, err_return, ret>>
emitterVars == <<opened, fields, ignore_h, p_row_num, count_recs,
                 count_ignore, count_skip, caught>>
dupVars == <<recname_list, dup_i, duplicates, seen, dup_result>>

---------------------------------------------------------------------------
(* Bounds *)

MaxRows == 2        \* data rows in the input file
MaxLen == 3         \* length of a list handed to duplicates_found alone
NumRuns == 2        \* runs of main() on the same input and output path

---------------------------------------------------------------------------
(* Strings *)

Range(s) == {s[i] : i \in 1..Len(s)}

UpperChars == <<"A","B","C","D","E","F","G","H","I","J","K","L","M",
                "N","O","P","Q","R","S","T","U","V","W","X","Y","Z">>
LowerChars == <<"a","b","c","d","e","f","g","h","i","j","k","l","m",
                "n","o","p","q","r","s","t","u","v","w","x","y","z">>

\* str.lower() on one character
LowerChar(c) ==
    IF \E i \in 1..Len(UpperChars) : UpperChars[i] = c
    THEN LowerChars[CHOOSE i \in 1..Len(UpperChars) : UpperChars[i] = c]
    ELSE c

\* str.lower()
lower(s) == [i \in 1..Len(s) |-> LowerChar(s[i])]

\* str.endswith(suffix)
endswith(s, suffix) ==
    /\ Len(s) >= Len(suffix)
    /\ SubSeq(s, Len(s) - Len(suffix) + 1, Len(s)) = suffix

CsvSuffix == <<".", "c", "s", "v">>
TrueStr == <<"t", "r", "u", "e">>
EmptyStr == <<>>

\* "x in headers" for a list of header names
InHeaders(h, names) == \E i \in 1..Len(names) : names[i] = h

---------------------------------------------------------------------------
(* Inputs *)

Paths == { <<"a", ".", "c", "s", "v">>,
           <<"a", ".", "C", "S", "V">>,
           <<"a", "c", "s", "v">> }

NameVals == { EmptyStr, <<"m", "1">>, <<"m", "2">> }
TypeVals == { EmptyStr, <<"a", "o">> }
IgnoreVals == { <<"t", "r", "u", "e">>, <<"T", "r", "u", "E">>,
                <<"n", "o">> }
FieldVals == { EmptyStr, <<"x">> }

ColVals(h) ==
    CASE h = "RECNAME" -> NameVals
      [] h = "RECTYPE" -> TypeVals
      [] h = "IGNORE"  -> IgnoreVals
      [] OTHER         -> FieldVals

AllVals == NameVals \cup TypeVals \cup IgnoreVals \cup FieldVals

NoHeaders == [isNone |-> TRUE, names |-> <<>>]
Hdr(names) == [isNone |-> FALSE, names |-> names]

HeaderChoices ==
    { NoHeaders,
      Hdr(<<"RECNAME">>),
      Hdr(<<"RECNAME", "DESC">>),
      Hdr(<<"RECTYPE", "DESC">>),
      Hdr(<<"RECNAME", "RECTYPE">>),
      Hdr(<<"RECNAME", "RECTYPE", "DESC">>),
      Hdr(<<"RECNAME", "RECTYPE", "IGNORE">>),
      Hdr(<<"RECNAME", "RECTYPE", "IGNORE", "DESC">>) }

\* the rows csv.DictReader can yield under a header list
RowsFor(names) ==
    { r \in [Range(names) -> AllVals] : \A h \in Range(names) : r[h] \in ColVals(h) }

RowSeqs(h) ==
    IF h.isNone THEN { <<>> }
    ELSE UNION { [1..n -> RowsFor(h.names)] : n \in 0..MaxRows }

\* what the output file holds before the first run
Stale == << <<"stale", <<>>, <<>> >> >>

---------------------------------------------------------------------------
(* Output lines *)

RecordLine(rectype, recname) == <<"record", rectype, recname>>
FieldLine(field, value) == <<"field", <<field>>, value>>
CloseLine == <<"}", <<>>, <<>> >>
BlankLine == <<"", <<>>, <<>> >>

---------------------------------------------------------------------------
(* duplicates_found *)

\* lines 23-24
DupStart == [duplicates |-> <<>>, seen |-> {}]

\* DupIter without line 28: the name is never added to seen
DupIterNoAdd(st, name) ==
    [duplicates |-> IF name \in st.seen THEN Append(st.duplicates, name)
                    ELSE st.duplicates,
     seen |-> st.seen]

\* lines 26-28: one iteration of "for name in recname_list"
DupIter(st, name) ==
    [duplicates |-> IF name \in st.seen THEN Append(st.duplicates, name)
                    ELSE st.duplicates,
     seen |-> st.seen \cup {name}]

\* lines 25-28
RECURSIVE DupLoop(_, _)
DupLoop(list, st) ==
    IF list = <<>> THEN st ELSE DupLoop(Tail(list), DupIter(st, Head(list)))

\* lines 9-29
duplicates_found(list) == Range(DupLoop(list, DupStart).duplicates)

---------------------------------------------------------------------------
(* State after construction *)

EmptyLog == [missing_type |-> <<>>, missing_name |-> <<>>, field |-> <<>>,
             name |-> {}, ignored |-> <<>>]

ValidatorReset ==
    /\ err_log = EmptyLog
    /\ recnames = <<>>
    /\ row_num = 1
    /\ err_return = FALSE
    /\ ret = "unset"

EmitterReset ==
    /\ called = FALSE
    /\ opened = FALSE
    /\ fields = <<>>
    /\ ignore_h = FALSE
    /\ p_row_num = 0
    /\ count_recs = 0
    /\ count_ignore = 0
    /\ count_skip = 0
    /\ caught = FALSE

Init ==
    /\ input_path \in Paths
    /\ fieldnames \in HeaderChoices
    /\ csv_rows \in RowSeqs(fieldnames)
    /\ outfile = Stale
    /\ pc = "input_error"
    /\ run = 1
    /\ first_out = <<>>
    /\ ValidatorReset
    /\ EmitterReset
    /\ recname_list = <<>>
    /\ dup_i = 1
    /\ duplicates = <<>>
    /\ seen = {}
    /\ dup_result = {}

---------------------------------------------------------------------------
(* input_error *)

\* CheckExtension with the suffix compared case-insensitively
CheckExtensionAnyCase ==
    /\ pc = "input_error"
    /\ IF ~endswith(lower(input_path), CsvSuffix)
       THEN /\ ret' = "True"
            /\ pc' = "main"
       ELSE /\ ret' = ret
            /\ pc' = "headers"
    /\ UNCHANGED <<inputVars, outfile, run, first_out, err_log, recnames,
                   row_num, err_return, called, emitterVars, dupVars>>

\* lines 62-68: the file is opened, then the suffix of the path is tested
CheckExtension ==
    /\ pc = "input_error"
    /\ IF ~endswith(input_path, CsvSuffix)
       THEN /\ ret' = "True"
            /\ pc' = "main"
       ELSE /\ ret' = ret
            /\ pc' = "headers"
    /\ UNCHANGED <<inputVars, outfile, run, first_out, err_log, recnames,
                   row_num, err_return, called, emitterVars, dupVars>>

\* lines 70-82
CheckHeaders ==
    /\ pc = "headers"
    /\ IF \/ fieldnames.isNone
          \/ Len(fieldnames.names) < 2
          \/ ~InHeaders("RECNAME", fieldnames.names)
          \/ ~InHeaders("RECTYPE", fieldnames.names)
       THEN /\ ret' = "True"
            /\ pc' = "main"
       ELSE /\ ret' = ret
            /\ pc' = "scan"
    /\ UNCHANGED <<inputVars, outfile, run, first_out, err_log, recnames,
                   row_num, err_return, called, emitterVars, dupVars>>

\* ValidateRow with the missing-name test as an "if" of its own instead of
\* an "elif" of the ignore test
ValidateRowNoElif ==
    /\ pc = "scan"
    /\ row_num <= Len(csv_rows)
    /\ LET row == csv_rows[row_num]
           recname == row["RECNAME"]
           rectype == row["RECTYPE"]
           ign == InHeaders("IGNORE", fieldnames.names) /\ lower(row["IGNORE"]) = TrueStr
           log1 == IF ign THEN [err_log EXCEPT !.ignored = Append(@, row_num)]
                   ELSE err_log
       IN  IF recname = EmptyStr
           THEN /\ err_log' = [log1 EXCEPT !.missing_name = Append(@, row_num)]
                /\ recnames' = recnames
           ELSE IF ign
           THEN /\ err_log' = log1
                /\ recnames' = recnames
           ELSE IF rectype = EmptyStr
           THEN /\ err_log' = [log1 EXCEPT !.missing_type = Append(@, row_num)]
                /\ recnames' = recnames
           ELSE /\ err_log' = log1
                /\ recnames' = Append(recnames, recname)
    /\ row_num' = row_num + 1
    /\ UNCHANGED <<inputVars, outfile, pc, run, first_out, err_return, ret,
                   called, emitterVars, dupVars>>

\* ValidateRow collecting the name of a row that misses its RECTYPE too
ValidateRowCollectsUntyped ==
    /\ pc = "scan"
    /\ row_num <= Len(csv_rows)
    /\ LET row == csv_rows[row_num]
           recname == row["RECNAME"]
           rectype == row["RECTYPE"]
       IN  IF InHeaders("IGNORE", fieldnames.names) /\ lower(row["IGNORE"]) = TrueStr
           THEN /\ err_log' = [err_log EXCEPT !.ignored = Append(@, row_num)]
                /\ recnames' = recnames
           ELSE IF recname = EmptyStr
           THEN /\ err_log' = [err_log EXCEPT !.missing_name = Append(@, row_num)]
                /\ recnames' = recnames
           ELSE IF rectype = EmptyStr
           THEN /\ err_log' = [err_log EXCEPT !.missing_type = Append(@, row_num)]
                /\ recnames' = Append(recnames, recname)
           ELSE /\ err_log' = err_log
                /\ recnames' = Append(recnames, recname)
    /\ row_num' = row_num + 1
    /\ UNCHANGED <<inputVars, outfile, pc, run, first_out, err_return, ret,
                   called, emitterVars, dupVars>>

\* lines 90-108: one iteration of "for row in reader"
ValidateRow ==
    /\ pc = "scan"
    /\ row_num <= Len(csv_rows)
    /\ LET row == csv_rows[row_num]
           recname == row["RECNAME"]
           rectype == row["RECTYPE"]
       IN  IF InHeaders("IGNORE", fieldnames.names) /\ lower(row["IGNORE"]) = TrueStr
           THEN /\ err_log' = [err_log EXCEPT !.ignored = Append(@, row_num)]
                /\ recnames' = recnames
           ELSE IF recname = EmptyStr
           THEN /\ err_log' = [err_log EXCEPT !.missing_name = Append(@, row_num)]
                /\ recnames' = recnames
           ELSE IF rectype = EmptyStr
           THEN /\ err_log' = [err_log EXCEPT !.missing_type = Append(@, row_num)]
                /\ recnames' = recnames
           ELSE /\ err_log' = err_log
                /\ recnames' = Append(recnames, recname)
    /\ row_num' = row_num + 1
    /\ UNCHANGED <<inputVars, outfile, pc, run, first_out, err_return, ret,
                   called, emitterVars, dupVars>>

\* lines 110-112: the reader is exhausted; duplicate check over recnames
CheckDuplicates ==
    /\ pc = "scan"
    /\ row_num > Len(csv_rows)
    /\ err_log' = [err_log EXCEPT !.name = duplicates_found(recnames)]
    /\ pc' = "report"
    /\ UNCHANGED <<inputVars, outfile, run, first_out, recnames, row_num,
                   err_return, ret, called, emitterVars, dupVars>>

\* lines 115-121: err_return is set when any category holds an entry
AnyCategory(log) ==
    \/ Len(log.missing_type) > 0
    \/ Len(log.missing_name) > 0
    \/ Len(log.field) > 0
    \/ Cardinality(log.name) > 0
    \/ Len(log.ignored) > 0

\* lines 114-128: "return err_return" sits in the else branch only, so the
\* function falls off its end, returning None, when err_return is set
Report ==
    /\ pc = "report"
    /\ err_return' = AnyCategory(err_log)
    /\ ret' = IF err_return' THEN "None" ELSE "False"
    /\ pc' = "main"
    /\ UNCHANGED <<inputVars, outfile, run, first_out, err_log, recnames,
                   row_num, called, emitterVars, dupVars>>

---------------------------------------------------------------------------
(* main *)

\* "not x" for the values input_error returns
Not(v) == v # "True"

\* lines 244-245
Main ==
    /\ pc = "main"
    /\ IF Not(ret)
       THEN /\ called' = TRUE
            /\ pc' = "process_csv"
       ELSE /\ called' = called
            /\ pc' = "done"
    /\ UNCHANGED <<inputVars, outfile, run, first_out, validatorVars,
                   opened, fields, ignore_h, p_row_num, count_recs,
                   count_ignore, count_skip, caught, dupVars>>

---------------------------------------------------------------------------
(* process_csv *)

\* line 157
RECURSIVE FieldsOf(_)
FieldsOf(names) ==
    IF names = <<>> THEN <<>>
    ELSE IF Head(names) \in {"RECNAME", "RECTYPE", "IGNORE"}
         THEN FieldsOf(Tail(names))
         ELSE <<Head(names)>> \o FieldsOf(Tail(names))

\* OpenFiles with the output opened in mode "a": nothing is truncated
OpenFilesAppend ==
    /\ pc = "process_csv"
    /\ IF fieldnames.isNone
       THEN /\ caught' = TRUE
            /\ pc' = "done"
            /\ UNCHANGED <<outfile, opened, fields, ignore_h>>
       ELSE /\ fields' = FieldsOf(fieldnames.names)
            /\ outfile' = outfile
            /\ opened' = TRUE
            /\ ignore_h' = InHeaders("IGNORE", fieldnames.names)
            /\ caught' = caught
            /\ pc' = "rows"
    /\ p_row_num' = 0
    /\ count_recs' = 0
    /\ count_ignore' = 0
    /\ count_skip' = 0
    /\ UNCHANGED <<inputVars, run, first_out, validatorVars, called, dupVars>>

\* lines 154-167: iterating headers None raises TypeError before the output
\* is opened; otherwise the output is opened in mode "w", which truncates it
OpenFiles ==
    /\ pc = "process_csv"
    /\ IF fieldnames.isNone
       THEN /\ caught' = TRUE
            /\ pc' = "done"
            /\ UNCHANGED <<outfile, opened, fields, ignore_h>>
       ELSE /\ fields' = FieldsOf(fieldnames.names)
            /\ outfile' = <<>>
            /\ opened' = TRUE
            /\ ignore_h' = InHeaders("IGNORE", fieldnames.names)
            /\ caught' = caught
            /\ pc' = "rows"
    /\ p_row_num' = 0
    /\ count_recs' = 0
    /\ count_ignore' = 0
    /\ count_skip' = 0
    /\ UNCHANGED <<inputVars, run, first_out, validatorVars, called, dupVars>>

\* line 197: row.get[field] subscripts the bound method dict.get, which
\* raises TypeError whatever the row and the field
RowGetSubscript(row, field) == [raised |-> TRUE, value |-> EmptyStr]

\* lines 196-199: [raised, lines]
RECURSIVE WriteFields(_, _, _)
WriteFields(row, fs, lines) ==
    IF fs = <<>> THEN [raised |-> FALSE, lines |-> lines]
    ELSE LET got == RowGetSubscript(row, Head(fs)) IN
         IF got.raised THEN [raised |-> TRUE, lines |-> lines]
         ELSE WriteFields(row, Tail(fs),
                          IF got.value # EmptyStr
                          THEN Append(lines, FieldLine(Head(fs), got.value))
                          ELSE lines)

\* lines 169-201: one iteration of "for row in reader"; an exception leaves
\* both with-blocks (the lines written so far stay in the file) and is caught
\* at line 206
EmitRow ==
    /\ pc = "rows"
    /\ p_row_num < Len(csv_rows)
    /\ LET row == csv_rows[p_row_num + 1]
           recname == row["RECNAME"]
           rectype == row["RECTYPE"]
           ignore == ignore_h /\ lower(row["IGNORE"]) = TrueStr
           skip == ~(recname # EmptyStr /\ rectype # EmptyStr)
           body == WriteFields(row, fields, <<RecordLine(rectype, recname)>>)
       IN  /\ count_ignore' = IF ignore THEN count_ignore + 1 ELSE count_ignore
           /\ count_skip' = IF skip THEN count_skip + 1 ELSE count_skip
           /\ IF ~(ignore \/ skip)
              THEN /\ count_recs' = count_recs + 1
                   /\ IF body.raised
                      THEN /\ outfile' = outfile \o body.lines
                           /\ caught' = TRUE
                           /\ pc' = "done"
                      ELSE /\ outfile' = outfile \o body.lines \o <<CloseLine, BlankLine>>
                           /\ caught' = caught
                           /\ pc' = pc
              ELSE UNCHANGED <<count_recs, outfile, caught, pc>>
    /\ p_row_num' = p_row_num + 1
    /\ UNCHANGED <<inputVars, run, first_out, validatorVars, called, opened,
                   fields, ignore_h, dupVars>>

\* lines 202-204: the reader is exhausted, the counts are logged
Finish ==
    /\ pc = "rows"
    /\ p_row_num = Len(csv_rows)
    /\ pc' = "done"
    /\ UNCHANGED <<inputVars, outfile, run, first_out, validatorVars, called,
                   emitterVars, dupVars>>

---------------------------------------------------------------------------
(* The program is run again on the same input and output path *)

Rerun ==
    /\ pc = "done"
    /\ run < NumRuns
    /\ run' = run + 1
    /\ first_out' = IF run = 1 THEN outfile ELSE first_out
    /\ pc' = "input_error"
    /\ err_log' = EmptyLog
    /\ recnames' = <<>>
    /\ row_num' = 1
    /\ err_return' = FALSE
    /\ ret' = "unset"
    /\ called' = FALSE
    /\ opened' = FALSE
    /\ fields' = <<>>
    /\ ignore_h' = FALSE
    /\ p_row_num' = 0
    /\ count_recs' = 0
    /\ count_ignore' = 0
    /\ count_skip' = 0
    /\ caught' = FALSE
    /\ UNCHANGED <<inputVars, outfile, dupVars>>

Next ==
    \/ CheckExtension
    \/ CheckHeaders
    \/ ValidateRow
    \/ CheckDuplicates
    \/ Report
    \/ Main
    \/ OpenFiles
    \/ EmitRow
    \/ Finish
    \/ Rerun

Spec == Init /\ [][Next]_vars

---------------------------------------------------------------------------
(* duplicates_found on its own, over lists of names *)

DupNames == {"A", "B", "C"}

InitDup ==
    /\ recname_list \in UNION { [1..n -> DupNames] : n \in 0..MaxLen }
    /\ dup_i = 1
    /\ duplicates = DupStart.duplicates
    /\ seen = DupStart.seen
    /\ dup_result = {}
    /\ pc = "duplicates_found"
    /\ input_path = <<>>
    /\ fieldnames = NoHeaders
    /\ csv_rows = <<>>
    /\ outfile = <<>>
    /\ run = 1
    /\ first_out = <<>>
    /\ ValidatorReset
    /\ EmitterReset

\* lines 25-28: one iteration of the loop
DupStep ==
    /\ pc = "duplicates_found"
    /\ dup_i <= Len(recname_list)
    /\ LET st == DupIter([duplicates |-> duplicates, seen |-> seen],
                         recname_list[dup_i])
       IN  /\ duplicates' = st.duplicates
           /\ seen' = st.seen
    /\ dup_i' = dup_i + 1
    /\ UNCHANGED <<inputVars, outfile, pc, run, first_out, validatorVars,
                   called, emitterVars, recname_list, dup_result>>

\* line 29
DupReturn ==
    /\ pc = "duplicates_found"
    /\ dup_i > Len(recname_list)
    /\ dup_result' = Range(duplicates)
    /\ pc' = "returned"
    /\ UNCHANGED <<inputVars, outfile, run, first_out, validatorVars, called,
                   emitterVars, recname_list, dup_i, duplicates, seen>>

NextDup == DupStep \/ DupReturn

SpecDup == InitDup /\ [][NextDup]_vars

---------------------------------------------------------------------------
(* Vocabulary of the properties, stated on the input alone *)

HasCsvSuffix ==
    \E k \in 0..Len(input_path) : input_path = SubSeq(input_path, 1, k) \o CsvSuffix

HeaderNames == IF fieldnames.isNone THEN {} ELSE Range(fieldnames.names)

HeadersOk ==
    /\ ~fieldnames.isNone
    /\ Len(fieldnames.names) >= 2
    /\ {"RECNAME", "RECTYPE"} \subseteq HeaderNames

GatesPass == HasCsvSuffix /\ HeadersOk

TrueSpellings ==
    { <<a, b, c, d>> : a \in {"t", "T"}, b \in {"r", "R"},
                       c \in {"u", "U"}, d \in {"e", "E"} }

RowIds == 1..Len(csv_rows)

Flagged(i) == "IGNORE" \in HeaderNames /\ csv_rows[i]["IGNORE"] \in TrueSpellings
NoName(i) == Len(csv_rows[i]["RECNAME"]) = 0
NoType(i) == Len(csv_rows[i]["RECTYPE"]) = 0
RowValid(i) == ~Flagged(i) /\ ~NoName(i) /\ ~NoType(i)

\* s lists the members of the set S of numbers in increasing order
Enumerates(s, S) ==
    /\ Len(s) = Cardinality(S)
    /\ Range(s) = S
    /\ \A j \in 1..(Len(s) - 1) : s[j] < s[j + 1]

\* the k-th smallest member of S
Kth(S, k) == CHOOSE i \in S : Cardinality({j \in S : j <= i}) = k

\* the block the output format prescribes for row i
RECURSIVE ExpectedFields(_, _)
ExpectedFields(names, row) ==
    IF names = <<>> THEN <<>>
    ELSE LET h == Head(names)
             rest == ExpectedFields(Tail(names), row)
         IN  IF h \notin {"RECNAME", "RECTYPE", "IGNORE"} /\ Len(row[h]) > 0
             THEN << <<"field", <<h>>, row[h]>> >> \o rest
             ELSE rest

ExpectedBlock(i) ==
    << <<"record", csv_rows[i]["RECTYPE"], csv_rows[i]["RECNAME"]>> >>
    \o ExpectedFields(fieldnames.names, csv_rows[i])
    \o << <<"}", <<>>, <<>> >>, <<"", <<>>, <<>> >> >>

\* process_csv has just handled row p_row_num'
EmitStep == pc = "rows" /\ p_row_num' = p_row_num + 1

RowLevelError ==
    \/ Len(err_log.missing_name) > 0
    \/ Len(err_log.missing_type) > 0
    \/ err_log.name # {}

---------------------------------------------------------------------------
(* C1: when the validator's report holds a missing-RECNAME row, a          *)
(* missing-RECTYPE row or a duplicate name, process_csv is not called in   *)
(* that run and the output file is neither opened nor written.             *)
C1_NoEmissionAfterRowErrors ==
    (run = 1 /\ RowLevelError) => (~called /\ ~opened /\ outfile = Stale)

(* C2: each data row the emitter handles increments exactly one counter:   *)
(* ignored when the row is ignore-flagged, otherwise skipped when RECNAME  *)
(* or RECTYPE is empty, otherwise written; so the three counters sum to    *)
(* the number of rows handled.                                             *)
C2_OneCounterPerRow ==
    [][EmitStep =>
         LET i == p_row_num'
             dw == count_recs' - count_recs
             di == count_ignore' - count_ignore
             ds == count_skip' - count_skip
         IN  /\ IF Flagged(i) THEN di = 1 /\ ds = 0 /\ dw = 0
                ELSE IF NoName(i) \/ NoType(i) THEN di = 0 /\ ds = 1 /\ dw = 0
                ELSE di = 0 /\ ds = 0 /\ dw = 1
             /\ count_recs' + count_ignore' + count_skip' = p_row_num']_vars

(* C3: for every row the emitter decides to write, one complete block is   *)
(* appended to the output: the record line, one field line per non-empty   *)
(* non-reserved column in header order, the closing line, a blank line.    *)
C3_CompleteBlock ==
    [][(EmitStep /\ RowValid(p_row_num'))
         => outfile' = outfile \o ExpectedBlock(p_row_num')]_vars

(* C4: with RECNAME, RECTYPE and IGNORE among the headers, an input whose  *)
(* rows are each ignore-flagged or complete with a name unique among the   *)
(* non-flagged rows passes validation: input_error returns False.          *)
C4_IgnoredRowsPass ==
    ( /\ GatesPass
      /\ "IGNORE" \in HeaderNames
      /\ \A i \in RowIds :
            \/ Flagged(i)
            \/ /\ RowValid(i)
               /\ \A j \in RowIds \ {i} :
                     ~Flagged(j) => csv_rows[j]["RECNAME"] # csv_rows[i]["RECNAME"]
      /\ pc \in {"main", "process_csv", "rows", "done"} )
    => (ret = "False" /\ ~err_return)

(* C5: the emitter treats each row as the validator classified it: a row   *)
(* the validator recorded as ignored is counted ignored and not written, a *)
(* row recorded as missing its name or type is counted skipped and not     *)
(* written, a row collected as valid is counted written and its block is   *)
(* written.                                                                *)
C5_SameClassification ==
    [][EmitStep =>
         LET i == p_row_num' IN
         IF i \in Range(err_log.ignored)
         THEN count_ignore' = count_ignore + 1 /\ count_recs' = count_recs
              /\ outfile' = outfile
         ELSE IF i \in Range(err_log.missing_name) \cup Range(err_log.missing_type)
         THEN count_skip' = count_skip + 1 /\ count_recs' = count_recs
              /\ outfile' = outfile
         ELSE count_recs' = count_recs + 1
              /\ outfile' = outfile \o ExpectedBlock(i)]_vars

(* C6: duplicates_found returns exactly the set of names that occur two or *)
(* more times in its argument.                                             *)
C6_DuplicatesExact ==
    pc = "returned" =>
        dup_result = { x \in DupNames :
                         Cardinality({ i \in 1..Len(recname_list) :
                                         recname_list[i] = x }) >= 2 }

C6_Witness ==
    /\ pc = "returned"
    /\ recname_list = <<"A", "A", "A">>
    /\ dup_result = {"A"}

(* C7: when the path lacks the suffix ".csv" (case-sensitive) or the       *)
(* header list is missing, shorter than 2 or lacks RECNAME or RECTYPE,     *)
(* input_error returns True with no row scanned and no category filled,    *)
(* and process_csv is not called: the output file is not opened and keeps  *)
(* its content.                                                            *)
C7_HardGates ==
    ~GatesPass =>
        /\ pc \in {"input_error", "headers", "main", "done"}
        /\ pc \in {"main", "done"} => ret = "True"
        /\ row_num = 1
        /\ recnames = <<>>
        /\ err_log = EmptyLog
        /\ ~called
        /\ ~opened
        /\ outfile = Stale

C7_Witness ==
    /\ pc = "done"
    /\ ~HasCsvSuffix
    /\ HeadersOk
    /\ \E i \in RowIds : RowValid(i)
    /\ ret = "True"
    /\ outfile = Stale

(* C8: when a second run on the same input and output path has ended, the  *)
(* output file holds what it held when the first run ended; a run that     *)
(* opens the output leaves nothing of the earlier content in it.           *)
C8_Idempotent ==
    /\ (run >= 2 /\ pc = "done") => outfile = first_out
    /\ (pc = "done" /\ opened) =>
          \A k \in 1..Len(outfile) : outfile[k][1] # "stale"

C8_Witness ==
    /\ run = 2
    /\ pc = "done"
    /\ ret = "False"
    /\ count_recs = 2
    /\ Len(outfile) = 6
    /\ outfile = first_out

(* C9: the validator visits every data row and files it under exactly one  *)
(* class, tested in the order ignore, missing name, missing type, valid,   *)
(* under its 1-based position among the data rows.                         *)
C9_ScanClasses ==
    (GatesPass /\ pc \notin {"input_error", "headers"}) =>
        LET done == 1..(row_num - 1)
            valid == { i \in done : RowValid(i) }
        IN  /\ row_num \in 1..(Len(csv_rows) + 1)
            /\ pc # "scan" => row_num = Len(csv_rows) + 1
            /\ Enumerates(err_log.ignored, { i \in done : Flagged(i) })
            /\ Enumerates(err_log.missing_name,
                          { i \in done : ~Flagged(i) /\ NoName(i) })
            /\ Enumerates(err_log.missing_type,
                          { i \in done : ~Flagged(i) /\ ~NoName(i) /\ NoType(i) })
            /\ Len(recnames) = Cardinality(valid)
            /\ \A k \in 1..Len(recnames) :
                  recnames[k] = csv_rows[Kth(valid, k)]["RECNAME"]

C9_Witness ==
    /\ pc = "report"
    /\ Len(csv_rows) = 2
    /\ Flagged(1) /\ NoName(1)
    /\ ~Flagged(2) /\ NoName(2) /\ NoType(2)
    /\ err_log.ignored = <<1>>
    /\ err_log.missing_name = <<2>>
    /\ err_log.missing_type = <<>>
    /\ recnames = <<>>

(* C10: after the scan the duplicate-name category is the set of names     *)
(* that occur two or more times among the rows that are not ignored and    *)
(* have both RECNAME and RECTYPE.                                          *)
C10_DuplicateCategory ==
    (GatesPass /\ pc \in {"report", "main", "process_csv", "rows", "done"}) =>
        err_log.name =
            { n \in NameVals :
                Cardinality({ i \in RowIds :
                                RowValid(i) /\ csv_rows[i]["RECNAME"] = n }) >= 2 }

C10_Witness ==
    /\ pc = "report"
    /\ Len(csv_rows) = 2
    /\ RowValid(1)
    /\ ~Flagged(2) /\ NoType(2)
    /\ csv_rows[1]["RECNAME"] = csv_rows[2]["RECNAME"]
    /\ err_log.name = {}
    /\ err_log.missing_type = <<2>>

====
